---- MODULE Spec2Model ----
(***************************************************************************)
(* A model of the SSNMF class of src/src/ssnmf/ssnmf.py: the constructor   *)
(* with its dimension checks, the three multiplicative-update training     *)
(* procedures (mult, snmfmult, klsnmfmult) and the two evaluation          *)
(* procedures (accuracy, kldiv).                                           *)
(*                                                                         *)
(* Numbers.  The program computes in IEEE doubles, where every numpy       *)
(* operation rounds its result.  The model computes in fixed point: a      *)
(* value v stands for v / Scale, and every elementwise product and         *)
(* quotient is rounded down to the grid, one rounding per numpy            *)
(* operation, in the order the source applies the operations.  A matrix    *)
(* is a sequence of rows; None is the empty sequence, so that              *)
(* np.shape(None) = ().  Indices are 1-based (numpy's index j is j+1).     *)
(***************************************************************************)
EXTENDS Integers, Sequences, FiniteSets, TLC

VARIABLES
    X, A, S, Y, B, lam, W, L,   \* the fields of an SSNMF object
    args,                       \* the arguments handed to __init__
    pc,                         \* position: "new", "failed", "idle", "updA", ...
    err,                        \* the exception that ended the last operation
    call,                       \* the running call: procedure, keyword arguments, the
                                \* branch test reached (br) and the branch entered (ran)
    i,                          \* the loop index of the running call
    errs, reconerrs, classerrs, classaccs,   \* the per-iteration arrays
    ret,                        \* what the last finished call returned
    out,                        \* the notices printed so far
    ncalls,                     \* calls started so far
    hist,                       \* history: the fields as they were after each
                                \* completed iteration of the running call
    snap,                       \* history: the fields as the running call found them
    prev                        \* history: the call that the running one continues

vars == <<X, A, S, Y, B, lam, W, L, args, pc, err, call, i,
          errs, reconerrs, classerrs, classaccs, ret, out, ncalls, hist, snap,
          prev>>

fields == <<X, A, S, Y, B, lam, W, L>>

-----------------------------------------------------------------------------
(* Bounds of the model.                                                     *)

\* the fixed-point resolution: a stored v is the number v / Scale
Scale == 64
\* the largest numiters a call is given
MaxIters == 2
\* the number of calls made on one model
MaxCalls == 2

-----------------------------------------------------------------------------
(* Python values.                                                           *)

None == <<>>

\* an optional scalar: None, or the scalar in a one-element sequence
Some(v) == <<v>>

\* a fixed-point value from an integer
Fix(n) == n * Scale

-----------------------------------------------------------------------------
(* numpy on fixed-point matrices.                                           *)

\* np.shape: () for None, (rows, cols) for a matrix
Shape(M) == IF M = None THEN <<>> ELSE <<Len(M), Len(M[1])>>

Rows(M) == Len(M)

Cols(M) == Len(M[1])

\* the product of two scalars, rounded to the grid
Mul(a, b) == (a * b) \div Scale

\* the quotient of two scalars, rounded to the grid
Div(a, b) == (a * Scale) \div b

RECURSIVE SumTo(_, _)
\* f[1] + ... + f[n]
SumTo(f, n) == IF n = 0 THEN 0 ELSE f[n] + SumTo(f, n - 1)

\* P @ Q
MatMul(P, Q) ==
    [r \in 1..Rows(P) |->
        [c \in 1..Cols(Q) |->
            SumTo([t \in 1..Cols(P) |-> Mul(P[r][t], Q[t][c])], Cols(P))]]

\* np.transpose(M)
Transpose(M) == [c \in 1..Cols(M) |-> [r \in 1..Rows(M) |-> M[r][c]]]

\* np.multiply(P, Q), elementwise
Multiply(P, Q) ==
    [r \in 1..Rows(P) |-> [c \in 1..Cols(P) |-> Mul(P[r][c], Q[r][c])]]

\* np.divide(P, Q), elementwise
Divide(P, Q) ==
    [r \in 1..Rows(P) |-> [c \in 1..Cols(P) |-> Div(P[r][c], Q[r][c])]]

\* P + Q and P - Q, elementwise
MatAdd(P, Q) ==
    [r \in 1..Rows(P) |-> [c \in 1..Cols(P) |-> P[r][c] + Q[r][c]]]

MatSub(P, Q) ==
    [r \in 1..Rows(P) |-> [c \in 1..Cols(P) |-> P[r][c] - Q[r][c]]]

\* eps + M: the scalar is added to every entry
AddEps(eps, M) ==
    [r \in 1..Rows(M) |-> [c \in 1..Cols(M) |-> eps + M[r][c]]]

\* s * M for a scalar s
Scalar(s, M) ==
    [r \in 1..Rows(M) |-> [c \in 1..Cols(M) |-> Mul(s, M[r][c])]]

\* np.ones((r, c))
Ones(r, c) == [a \in 1..r |-> [b \in 1..c |-> Fix(1)]]

\* a matrix with every entry v
Const(r, c, v) == [a \in 1..r |-> [b \in 1..c |-> v]]

\* all entries of M are >= 0
NonNeg(M) == \A r \in 1..Rows(M) : \A c \in 1..Cols(M) : M[r][c] >= 0

-----------------------------------------------------------------------------
(* Exceptions.  The source raises the builtin Exception with a message;    *)
(* the message tells a dimension error from a missing label matrix.         *)

NoErr == [kind |-> "none", msg |-> ""]

Exc(m) == [kind |-> "Exception", msg |-> m]

\* indexing the empty tuple np.shape(None)
IndexError == [kind |-> "IndexError", msg |-> "tuple index out of range"]

\* an int divided by the int 0
ZeroDivisionError == [kind |-> "ZeroDivisionError", msg |-> "division by zero"]

\* the messages of the constructor's dimension checks
DimensionMessages ==
    { "The row dimensions of X and A are not equal.",
      "The column dimensions of X and S are not equal.",
      "The column dimension of A is not equal to the input number of topics.",
      "The row dimension of S is not equal to the input number of topics.",
      "The column dimensions of X and Y are not equal.",
      "The row dimensions of Y and B are not equal.",
      "The column dimension of B is not equal to the input number of topics.",
      "The row dimensions of X and W are not equal.",
      "The column dimensions of X and W are not equal.",
      "The row dimensions of Y and L are not equal.",
      "The column dimensions of Y and L are not equal." }

\* the messages of the label-matrix checks of the procedures
SupervisionMessages ==
    { "Label matrix Y not provided: train with mult instead.",
      "Label matrix Y not provided: model is not semi-supervised." }

DimensionMismatch(e) == e.kind = "Exception" /\ e.msg \in DimensionMessages

MissingSupervision(e) == e.kind = "Exception" /\ e.msg \in SupervisionMessages

-----------------------------------------------------------------------------
(* SSNMF.__init__                                                           *)

\* what np.random.rand(r, c) may return: entries in [0, 1)
RandMats(r, c) == [1..r -> [1..c -> {0, Scale \div 2}]]

\* the label-mask checks: np.shape(self.Y) is () when Y is None, and
\* indexing it raises IndexError
InitCheckL(a) ==
    IF a.L = None THEN NoErr
    ELSE IF Len(Shape(a.Y)) < 1 THEN IndexError
    ELSE IF Shape(a.L)[1] # Shape(a.Y)[1]
        THEN Exc("The row dimensions of Y and L are not equal.")
    ELSE IF Shape(a.L)[2] # Shape(a.Y)[2]
        THEN Exc("The column dimensions of Y and L are not equal.")
    ELSE NoErr
\* seeded fault: the column test of W left out
InitCheckW_RowsOnly(a) ==
    IF a.W = None THEN NoErr
    ELSE IF Shape(a.W)[1] # Shape(a.X)[1]
        THEN Exc("The row dimensions of X and W are not equal.")
    ELSE NoErr

\* the data-mask checks
InitCheckW(a) ==
    IF a.W = None THEN NoErr
    ELSE IF Shape(a.W)[1] # Shape(a.X)[1]
        THEN Exc("The row dimensions of X and W are not equal.")
    ELSE IF Shape(a.W)[2] # Shape(a.X)[2]
        THEN Exc("The column dimensions of X and W are not equal.")
    ELSE NoErr

\* the supervision checks, B0 being the supplied or default B
InitCheckY(a, B0) ==
    IF a.Y = None THEN NoErr
    ELSE IF Shape(a.Y)[2] # Shape(a.X)[2]
        THEN Exc("The column dimensions of X and Y are not equal.")
    ELSE IF Shape(B0)[1] # Shape(a.Y)[1]
        THEN Exc("The row dimensions of Y and B are not equal.")
    ELSE IF Shape(B0)[2] # a.k
        THEN Exc("The column dimension of B is not equal to the input number of topics.")
    ELSE NoErr

\* the checks of X, A and S, A0 and S0 being the supplied or default factors
InitCheckAS(a, A0, S0) ==
    IF Shape(a.X)[1] # Shape(A0)[1]
        THEN Exc("The row dimensions of X and A are not equal.")
    ELSE IF Shape(a.X)[2] # Shape(S0)[2]
        THEN Exc("The column dimensions of X and S are not equal.")
    ELSE IF Shape(A0)[2] # a.k
        THEN Exc("The column dimension of A is not equal to the input number of topics.")
    ELSE IF Shape(S0)[1] # a.k
        THEN Exc("The row dimension of S is not equal to the input number of topics.")
    ELSE NoErr

\* the first exception the constructor raises, in the order of its checks
InitError(a, A0, S0, B0) ==
    IF InitCheckAS(a, A0, S0) # NoErr THEN InitCheckAS(a, A0, S0)
    ELSE IF InitCheckY(a, B0) # NoErr THEN InitCheckY(a, B0)
    ELSE IF InitCheckW(a) # NoErr THEN InitCheckW(a)
    ELSE InitCheckL(a)

\* the default B is drawn only when Y is given and has the columns of X
\* (the column check comes before the draw)
DefaultB(a) ==
    IF a.Y = None \/ a.B # None THEN {a.B}
    ELSE IF Shape(a.Y)[2] # Shape(a.X)[2] THEN {None}
    ELSE RandMats(Shape(a.Y)[1], a.k)

\* SSNMF(X, k, **kwargs): a model in position "idle", or an exception and
\* no model
Construct ==
    /\ pc = "new"
    /\ \E A0 \in (IF args.A = None THEN RandMats(Shape(args.X)[1], args.k) ELSE {args.A}),
          S0 \in (IF args.S = None THEN RandMats(args.k, Shape(args.X)[2]) ELSE {args.S}),
          B0 \in DefaultB(args) :
          LET e == InitError(args, A0, S0, B0)
          IN  /\ err' = e
              /\ IF e = NoErr
                 THEN /\ pc' = "idle"
                      /\ X' = args.X
                      /\ A' = A0
                      /\ S' = S0
                      /\ Y' = args.Y
                      /\ B' = IF args.Y = None THEN None ELSE B0
                      /\ lam' = IF args.Y = None THEN None
                                ELSE IF args.lam = None THEN Some(Fix(1))
                                ELSE args.lam
                      /\ W' = args.W
                      /\ L' = args.L
                 ELSE /\ pc' = "failed"
                      /\ UNCHANGED fields
    /\ UNCHANGED <<args, call, i, errs, reconerrs, classerrs, classaccs,
                   ret, out, ncalls, hist, snap, prev>>

-----------------------------------------------------------------------------
(* The multiplicative updates.  Each operator is one assignment of the     *)
(* source, with the source's association: P @ Q @ R is (P @ Q) @ R, and     *)
(* lam * P @ Q is (lam * P) @ Q.                                            *)
\* seeded fault: eps - ... for eps + ... in the denominator
UpdA_Minus(A0, S0, X0, eps) ==
    Multiply(Divide(A0, MatSub(Const(Rows(A0), Cols(A0), eps),
                               MatMul(MatMul(A0, S0), Transpose(S0)))),
             MatMul(X0, Transpose(S0)))

\* seeded fault: eps added to A instead of to the denominator's product
UpdA_EpsOnA(A0, S0, X0, eps) ==
    Multiply(Divide(AddEps(eps, A0), AddEps(eps, MatMul(MatMul(A0, S0), Transpose(S0)))),
             MatMul(X0, Transpose(S0)))

\* A without a data mask (mult, snmfmult and klsnmfmult share the formula)
UpdA(A0, S0, X0, eps) ==
    Multiply(Divide(A0, AddEps(eps, MatMul(MatMul(A0, S0), Transpose(S0)))),
             MatMul(X0, Transpose(S0)))

\* seeded fault: X not masked in the numerator
UpdAW_RawX(A0, S0, X0, W0, eps) ==
    Multiply(Divide(A0, AddEps(eps, MatMul(Multiply(W0, MatMul(A0, S0)), Transpose(S0)))),
             MatMul(X0, Transpose(S0)))

\* A with the data mask W
UpdAW(A0, S0, X0, W0, eps) ==
    Multiply(Divide(A0, AddEps(eps, MatMul(Multiply(W0, MatMul(A0, S0)), Transpose(S0)))),
             MatMul(Multiply(W0, X0), Transpose(S0)))

\* mult: S without a data mask
MultUpdS(A0, S0, X0, eps) ==
    Multiply(Divide(S0, AddEps(eps, MatMul(MatMul(Transpose(A0), A0), S0))),
             MatMul(Transpose(A0), X0))

\* mult: S with the data mask W
MultUpdSW(A0, S0, X0, W0, eps) ==
    Multiply(Divide(S0, AddEps(eps, MatMul(Transpose(A0), Multiply(W0, MatMul(A0, S0))))),
             MatMul(Transpose(A0), Multiply(W0, X0)))

\* snmfmult: B without a label mask
SnmfUpdB(B0, S0, Y0, eps) ==
    Multiply(Divide(B0, AddEps(eps, MatMul(MatMul(B0, S0), Transpose(S0)))),
             MatMul(Y0, Transpose(S0)))

\* snmfmult: B with the label mask L
SnmfUpdBL(B0, S0, Y0, L0, eps) ==
    Multiply(Divide(B0, AddEps(eps, MatMul(Multiply(L0, MatMul(B0, S0)), Transpose(S0)))),
             MatMul(Multiply(L0, Y0), Transpose(S0)))

\* snmfmult: S, no masks
SnmfUpdS(A0, S0, B0, X0, Y0, l, eps) ==
    Multiply(
        Divide(S0, MatAdd(AddEps(eps, MatMul(MatMul(Transpose(A0), A0), S0)),
                          MatMul(MatMul(Scalar(l, Transpose(B0)), B0), S0))),
        MatAdd(MatMul(Transpose(A0), X0),
               MatMul(Scalar(l, Transpose(B0)), Y0)))

\* snmfmult: S with the label mask L
SnmfUpdSL(A0, S0, B0, X0, Y0, L0, l, eps) ==
    Multiply(
        Divide(S0, MatAdd(AddEps(eps, MatMul(MatMul(Transpose(A0), A0), S0)),
                          MatMul(Scalar(l, Transpose(B0)), Multiply(L0, MatMul(B0, S0))))),
        MatAdd(MatMul(Transpose(A0), X0),
               MatMul(Scalar(l, Transpose(B0)), Multiply(L0, Y0))))

\* snmfmult: S with the data mask W
SnmfUpdSW(A0, S0, B0, X0, Y0, W0, l, eps) ==
    Multiply(
        Divide(S0, MatAdd(AddEps(eps, MatMul(Transpose(A0), Multiply(W0, MatMul(A0, S0)))),
                          MatMul(MatMul(Scalar(l, Transpose(B0)), B0), S0))),
        MatAdd(MatMul(Transpose(A0), Multiply(W0, X0)),
               MatMul(Scalar(l, Transpose(B0)), Y0)))

\* snmfmult: S with both masks
SnmfUpdSWL(A0, S0, B0, X0, Y0, W0, L0, l, eps) ==
    Multiply(
        Divide(S0, MatAdd(AddEps(eps, MatMul(Transpose(A0), Multiply(W0, MatMul(A0, S0)))),
                          MatMul(Scalar(l, Transpose(B0)), Multiply(L0, MatMul(B0, S0))))),
        MatAdd(MatMul(Transpose(A0), Multiply(W0, X0)),
               MatMul(Scalar(l, Transpose(B0)), Multiply(L0, Y0))))

\* klsnmfmult: B without a label mask
KlUpdB(B0, S0, Y0, eps) ==
    Multiply(Divide(B0, AddEps(eps, MatMul(Ones(Rows(Y0), Cols(Y0)), Transpose(S0)))),
             MatMul(Divide(Y0, AddEps(eps, MatMul(B0, S0))), Transpose(S0)))

\* klsnmfmult: B with the label mask L
KlUpdBL(B0, S0, Y0, L0, eps) ==
    Multiply(Divide(B0, AddEps(eps, MatMul(L0, Transpose(S0)))),
             MatMul(Divide(Multiply(L0, Y0), AddEps(eps, Multiply(L0, MatMul(B0, S0)))),
                    Transpose(S0)))

\* klsnmfmult: S, no masks
KlUpdS(A0, S0, B0, X0, Y0, l, eps) ==
    Multiply(
        Divide(S0, AddEps(eps,
            MatAdd(MatMul(MatMul(Scalar(Fix(2), Transpose(A0)), A0), S0),
                   MatMul(Scalar(l, Transpose(B0)), Ones(Rows(Y0), Cols(Y0)))))),
        MatAdd(MatMul(Scalar(Fix(2), Transpose(A0)), X0),
               MatMul(Scalar(l, Transpose(B0)), Divide(Y0, AddEps(eps, MatMul(B0, S0))))))

\* klsnmfmult: S with the data mask W
KlUpdSW(A0, S0, B0, X0, Y0, W0, l, eps) ==
    Multiply(
        Divide(S0, AddEps(eps,
            MatAdd(MatMul(Scalar(Fix(2), Transpose(A0)), Multiply(W0, MatMul(A0, S0))),
                   MatMul(Scalar(l, Transpose(B0)), Ones(Rows(Y0), Cols(Y0)))))),
        MatAdd(MatMul(Scalar(Fix(2), Transpose(A0)), Multiply(W0, X0)),
               MatMul(Scalar(l, Transpose(B0)), Divide(Y0, AddEps(eps, MatMul(B0, S0))))))

\* klsnmfmult: S with the label mask L
KlUpdSL(A0, S0, B0, X0, Y0, L0, l, eps) ==
    Multiply(
        Divide(S0, AddEps(eps,
            MatAdd(MatMul(MatMul(Scalar(Fix(2), Transpose(A0)), A0), S0),
                   MatMul(Scalar(l, Transpose(B0)), L0)))),
        MatAdd(MatMul(Scalar(Fix(2), Transpose(A0)), X0),
               MatMul(Scalar(l, Transpose(B0)),
                      Divide(Multiply(L0, Y0), AddEps(eps, Multiply(L0, MatMul(B0, S0)))))))

\* klsnmfmult: S with both masks
KlUpdSWL(A0, S0, B0, X0, Y0, W0, L0, l, eps) ==
    Multiply(
        Divide(S0, AddEps(eps,
            MatAdd(MatMul(Scalar(Fix(2), Transpose(A0)), Multiply(W0, MatMul(A0, S0))),
                   MatMul(Scalar(l, Transpose(B0)), L0)))),
        MatAdd(MatMul(Scalar(Fix(2), Transpose(A0)), Multiply(W0, X0)),
               MatMul(Scalar(l, Transpose(B0)),
                      Divide(Multiply(L0, Y0), AddEps(eps, Multiply(L0, MatMul(B0, S0)))))))

-----------------------------------------------------------------------------
(* accuracy() and kldiv().                                                  *)

\* column c of M
Col(M, c) == [r \in 1..Rows(M) |-> M[r][c]]

RECURSIVE ArgMaxFrom(_, _, _)
\* the scan of np.argmax: a later entry wins only when strictly greater
ArgMaxFrom(v, j, best) ==
    IF j > Len(v) THEN best
    ELSE ArgMaxFrom(v, j + 1, IF v[j] > v[best] THEN j ELSE best)

\* np.argmax of a vector: the first index of its maximum
ArgMax(v) == ArgMaxFrom(v, 2, 1)

RECURSIVE Gcd(_, _)
Gcd(a, b) == IF b = 0 THEN a ELSE Gcd(b, a % b)

\* the float n / d, d # 0, as a reduced fraction
Frac(n, d) == <<n \div Gcd(n, d), d \div Gcd(n, d)>>

RECURSIVE AccuracyLoop(_, _, _, _)
\* the loop over the columns when L is None: numacc after columns i..
AccuracyLoop(Y0, Yhat, c, numacc) ==
    IF c > Cols(Y0) THEN numacc
    ELSE AccuracyLoop(Y0, Yhat, c + 1,
            IF ArgMax(Col(Y0, c)) = ArgMax(Col(Yhat, c)) THEN numacc + 1 ELSE numacc)
\* seeded fault: a column without a true label is dropped whether or not the
\* indices agree
CountsL_DropAll(LY, Yhat, c) ==
    LET true_max == ArgMax(Col(LY, c))
        approx_max == ArgMax(Col(Yhat, c))
    IN  [acc |-> true_max = approx_max /\ LY[true_max][c] # 0,
         drop |-> LY[true_max][c] = 0]

\* the two tests of one column when L is given
CountsL(LY, Yhat, c) ==
    LET true_max == ArgMax(Col(LY, c))
        approx_max == ArgMax(Col(Yhat, c))
    IN  [acc |-> true_max = approx_max /\ LY[true_max][c] # 0,
         drop |-> true_max = approx_max /\ LY[true_max][c] = 0]

RECURSIVE AccuracyLoopL(_, _, _, _, _)
\* the loop over the columns when L is given: <<numacc, num_labels>>
AccuracyLoopL(LY, Yhat, c, numacc, num_labels) ==
    IF c > Cols(LY) THEN <<numacc, num_labels>>
    ELSE AccuracyLoopL(LY, Yhat, c + 1,
            IF CountsL(LY, Yhat, c).acc THEN numacc + 1 ELSE numacc,
            IF CountsL(LY, Yhat, c).drop THEN num_labels - 1 ELSE num_labels)

\* the branch of accuracy() for L = None, on Y and Yhat = B @ S
AccuracyNoL(Y0, Yhat) ==
    [err |-> NoErr, val |-> Frac(AccuracyLoop(Y0, Yhat, 1, 0), Cols(Y0))]
\* seeded fault: the prediction is not masked by L
AccuracyL_Unmasked(Y0, BS, L0) ==
    LET n == AccuracyLoopL(Multiply(L0, Y0), BS, 1, 0, Cols(Y0))
    IN  IF n[2] = 0 THEN [err |-> ZeroDivisionError, val |-> None]
        ELSE [err |-> NoErr, val |-> Frac(n[1], n[2])]

\* the branch of accuracy() for a given L; numacc / num_labels divides two
\* Python ints, and raises when num_labels is 0
AccuracyL(Y0, BS, L0) ==
    LET n == AccuracyLoopL(Multiply(L0, Y0), Multiply(L0, BS), 1, 0, Cols(Y0))
    IN  IF n[2] = 0 THEN [err |-> ZeroDivisionError, val |-> None]
        ELSE [err |-> NoErr, val |-> Frac(n[1], n[2])]

\* accuracy() on a model with the given fields
Accuracy(Y0, B0, S0, L0) ==
    IF Y0 = None
    THEN [err |-> Exc("Label matrix Y not provided: model is not semi-supervised."),
          val |-> None]
    ELSE IF L0 = None THEN AccuracyNoL(Y0, MatMul(B0, S0))
    ELSE AccuracyL(Y0, MatMul(B0, S0), L0)

\* the eps every procedure takes when the caller gives none: 1e-10, the
\* smallest positive number of the grid
DefaultEps == 1

\* the sum of all entries of M
SumAll(M) ==
    SumTo([r \in 1..Rows(M) |-> SumTo(M[r], Cols(M))], Rows(M))

\* sum of Y * log((Y + eps) / (Yhat + eps)) - Y + Yhat.  The logarithm is
\* kept symbolic: the value is lin + the sum over the entries of
\* ln[r][c][1] * log(ln[r][c][2])
KldivOf(Y0, Yhat, eps) ==
    [lin |-> SumAll(MatSub(Yhat, Y0)),
     ln |-> [r \in 1..Rows(Y0) |-> [c \in 1..Cols(Y0) |->
                <<Y0[r][c], Div(Y0[r][c] + eps, Yhat[r][c] + eps)>>]]]

\* kldiv(eps) on a model with the given fields
Kldiv(Y0, B0, S0, L0, eps) ==
    IF Y0 = None
    THEN [err |-> Exc("Label matrix Y not provided: model is not semi-supervised."),
          val |-> None]
    ELSE IF L0 = None
    THEN [err |-> NoErr, val |-> KldivOf(Y0, MatMul(B0, S0), eps)]
    ELSE [err |-> NoErr,
          val |-> KldivOf(Multiply(L0, Y0), Multiply(L0, MatMul(B0, S0)), eps)]

-----------------------------------------------------------------------------
(* The per-iteration diagnostics.                                           *)

RECURSIVE IsqrtIn(_, _, _)
\* the largest r in lo..hi with r * r <= n
IsqrtIn(n, lo, hi) ==
    IF lo >= hi THEN lo
    ELSE LET mid == (lo + hi + 1) \div 2
         IN  IF mid * mid <= n THEN IsqrtIn(n, mid, hi) ELSE IsqrtIn(n, lo, mid - 1)

\* la.norm(M, 'fro'): the square root of the sum of the squared entries
FroNorm(M) ==
    LET sq == SumAll([r \in 1..Rows(M) |-> [c \in 1..Cols(M) |-> M[r][c] * M[r][c]]])
    IN  IsqrtIn(sq, 0, SumAll([r \in 1..Rows(M) |-> [c \in 1..Cols(M) |->
                                 IF M[r][c] < 0 THEN -M[r][c] ELSE M[r][c]]]))

\* the reconstruction error of a branch, masked by W when the branch has W
ReconErr(A0, S0, X0, W0, hasW) ==
    IF hasW THEN FroNorm(MatSub(Multiply(W0, X0), Multiply(W0, MatMul(A0, S0))))
    ELSE FroNorm(MatSub(X0, MatMul(A0, S0)))

\* the classification error of a branch of snmfmult
ClassErr(B0, S0, Y0, L0, hasL) ==
    IF hasL THEN FroNorm(MatSub(Multiply(L0, Y0), Multiply(L0, MatMul(B0, S0))))
    ELSE FroNorm(MatSub(Y0, MatMul(B0, S0)))

\* reconerrs[i]**2 + lam * classerrs[i]**2
SnmfErr(re, ce, l) == Mul(re, re) + Mul(l, Mul(ce, ce))

\* reconerrs[i]**2 + lam * classerrs[i], the divergence being symbolic
KlErr(re, kl, l) == [sq |-> Mul(re, re), lam |-> l, div |-> kl]

-----------------------------------------------------------------------------
(* The training procedures.  A call is taken one assignment at a time:     *)
(* StartCall (keyword arguments, np.empty, the label-matrix check),        *)
(* Dispatch (the branch tests), then per iteration UpdateA, UpdateB,       *)
(* UpdateS and Save, and Finish (the notice and the return).               *)

Procs == {"mult", "snmfmult", "klsnmfmult"}

\* the eps values a caller passes: the default and 1.0
EpsSet == {DefaultEps, Fix(1)}

\* the numiters values a caller passes: none, one, and the largest
NumItersSet == {0, 1, MaxIters}

\* one cell of an array: <<>> while uninitialised, <<v>> once assigned
Uninit == <<>>

Cell(v) == <<v>>

\* np.empty(n): n cells, none assigned
Empty(n) == [j \in 1..n |-> Uninit]

\* seeded fault: the second test of klsnmfmult without its "L is None"
BranchCond_LooseKl(proc, j) ==
    IF proc = "mult"
    THEN (j = 1 /\ W = None) \/ (j = 2 /\ W # None)
    ELSE IF proc = "snmfmult"
    THEN \/ (j = 1 /\ L = None /\ W = None)
         \/ (j = 2 /\ L # None /\ W = None)
         \/ (j = 3 /\ L = None /\ W # None)
         \/ (j = 4 /\ W # None /\ L # None)
    ELSE \/ (j = 1 /\ L = None /\ W = None)
         \/ (j = 2 /\ W # None)
         \/ (j = 3 /\ L # None /\ W = None)
         \/ (j = 4 /\ L # None /\ W # None)

\* the branch tests of each procedure, in source order
BranchCond(proc, j) ==
    IF proc = "mult"
    THEN (j = 1 /\ W = None) \/ (j = 2 /\ W # None)
    ELSE IF proc = "snmfmult"
    THEN \/ (j = 1 /\ L = None /\ W = None)
         \/ (j = 2 /\ L # None /\ W = None)
         \/ (j = 3 /\ L = None /\ W # None)
         \/ (j = 4 /\ W # None /\ L # None)
    ELSE \/ (j = 1 /\ L = None /\ W = None)
         \/ (j = 2 /\ L = None /\ W # None)
         \/ (j = 3 /\ L # None /\ W = None)
         \/ (j = 4 /\ L # None /\ W # None)

NBranches(proc) == IF proc = "mult" THEN 2 ELSE 4

\* whether the formulas of branch j of proc mask by W, and by L
BranchW(proc, j) ==
    \/ (proc = "mult" /\ j = 2)
    \/ (proc = "snmfmult" /\ j \in {3, 4})
    \/ (proc = "klsnmfmult" /\ j \in {2, 4})

BranchL(proc, j) ==
    \/ (proc = "snmfmult" /\ j \in {2, 4})
    \/ (proc = "klsnmfmult" /\ j \in {3, 4})

\* the notice each branch prints when its loop has ended
Notice(proc, j) ==
    IF proc = "mult"
    THEN IF j = 1 THEN "Completed NMF for unsupervised learning without missing data."
         ELSE "Completed NMF for unsupervised learning with missing data."
    ELSE IF proc = "snmfmult"
    THEN IF j = 1 THEN "Completed SSNMF for supervised learning without missing data."
         ELSE IF j = 2 THEN "Completed SSNMF for semi-supervised learning without missing data."
         ELSE IF j = 3 THEN "Completed SSNMF for supervised learning with missing data."
         ELSE "Completed SSNMF for semi-supervised learning with missing data."
    ELSE IF j = 1 THEN "Completed I-SSNMF for supervised learning without missing data."
         ELSE IF j = 2 THEN "Completed I-SSNMF for supervised learning with missing data."
         ELSE IF j = 3 THEN "Completed I-SSNMF for semi-supervised learning without missing data."
         ELSE "Completed I-SSNMF for semi-supervised learning with missing data."

\* the fields of the object, as a record
Model == [X |-> X, A |-> A, S |-> S, Y |-> Y, B |-> B, lam |-> lam, W |-> W, L |-> L]

\* the new A of branch br of proc on the model m
NewA(m, proc, br, eps) ==
    IF BranchW(proc, br) THEN UpdAW(m.A, m.S, m.X, m.W, eps)
    ELSE UpdA(m.A, m.S, m.X, eps)

\* the new B of branch br of proc (snmfmult and klsnmfmult)
NewB(m, proc, br, eps) ==
    IF proc = "snmfmult"
    THEN IF BranchL(proc, br) THEN SnmfUpdBL(m.B, m.S, m.Y, m.L, eps)
         ELSE SnmfUpdB(m.B, m.S, m.Y, eps)
    ELSE IF BranchL(proc, br) THEN KlUpdBL(m.B, m.S, m.Y, m.L, eps)
         ELSE KlUpdB(m.B, m.S, m.Y, eps)

\* the new S of branch br of proc
NewS(m, proc, br, eps) ==
    LET w == BranchW(proc, br)
        l == BranchL(proc, br)
    IN  IF proc = "mult"
        THEN IF w THEN MultUpdSW(m.A, m.S, m.X, m.W, eps)
             ELSE MultUpdS(m.A, m.S, m.X, eps)
        ELSE IF proc = "snmfmult"
        THEN IF w /\ l THEN SnmfUpdSWL(m.A, m.S, m.B, m.X, m.Y, m.W, m.L, m.lam[1], eps)
             ELSE IF w THEN SnmfUpdSW(m.A, m.S, m.B, m.X, m.Y, m.W, m.lam[1], eps)
             ELSE IF l THEN SnmfUpdSL(m.A, m.S, m.B, m.X, m.Y, m.L, m.lam[1], eps)
             ELSE SnmfUpdS(m.A, m.S, m.B, m.X, m.Y, m.lam[1], eps)
        ELSE IF w /\ l THEN KlUpdSWL(m.A, m.S, m.B, m.X, m.Y, m.W, m.L, m.lam[1], eps)
             ELSE IF w THEN KlUpdSW(m.A, m.S, m.B, m.X, m.Y, m.W, m.lam[1], eps)
             ELSE IF l THEN KlUpdSL(m.A, m.S, m.B, m.X, m.Y, m.L, m.lam[1], eps)
             ELSE KlUpdS(m.A, m.S, m.B, m.X, m.Y, m.lam[1], eps)
\* seeded fault: the label-matrix test left out
GateFails_Never(proc) == FALSE

\* seeded fault: mult taken to require that Y is absent
GateFails_MultToo(proc) == (proc # "mult" /\ Y = None) \/ (proc = "mult" /\ Y # None)

\* "if self.Y is None: raise" of snmfmult and klsnmfmult; mult has no such test
GateFails(proc) == proc # "mult" /\ Y = None

\* the assignment that follows self.A = ...: mult has no B
AfterA(proc) == IF proc = "mult" THEN "updS" ELSE "updB"

\* no call is continued by the running one
NoPrev == [proc |-> "none", numiters |-> 0, err |-> NoErr, snap |-> Model]

\* what is kept of the last call when proc(eps = ..) starts: if it was a
\* call of the same training procedure with the same eps, its numiters,
\* the exception it ended with, and the fields it found
LastCall(proc, eps) ==
    IF call.proc = proc /\ call.eps = eps
    THEN [proc |-> call.proc, numiters |-> call.numiters, err |-> err, snap |-> snap]
    ELSE NoPrev

\* proc(numiters = .., saveerrs = .., eps = ..): the arrays are allocated,
\* then snmfmult and klsnmfmult raise when there is no label matrix
StartCall(proc, numiters, saveerrs, eps) ==
    /\ pc = "idle"
    /\ ncalls < MaxCalls
    /\ ncalls' = ncalls + 1
    /\ call' = [proc |-> proc, numiters |-> numiters, saveerrs |-> saveerrs,
                eps |-> eps, br |-> 1, ran |-> 0]
    /\ errs' = IF saveerrs THEN Empty(numiters) ELSE None
    /\ reconerrs' = IF saveerrs /\ proc # "mult" THEN Empty(numiters) ELSE None
    /\ classerrs' = IF saveerrs /\ proc # "mult" THEN Empty(numiters) ELSE None
    /\ classaccs' = IF saveerrs /\ proc # "mult" THEN Empty(numiters) ELSE None
    /\ IF GateFails(proc)
       THEN /\ err' = Exc("Label matrix Y not provided: train with mult instead.")
            /\ pc' = "idle"
       ELSE /\ err' = NoErr
            /\ pc' = "test"
    /\ i' = 0
    /\ ret' = None
    /\ out' = <<>>
    /\ hist' = <<>>
    /\ snap' = Model
    /\ prev' = LastCall(proc, eps)
    /\ UNCHANGED <<fields, args>>

\* the first branch from j on whose test holds, 0 when none does
FirstBranch(proc, j) ==
    IF \E b \in j..NBranches(proc) : BranchCond(proc, b)
    THEN CHOOSE b \in j..NBranches(proc) :
            /\ BranchCond(proc, b)
            /\ \A b2 \in j..(b - 1) : ~BranchCond(proc, b2)
    ELSE 0

\* the branch tests from call.br on: enter the first branch whose test
\* holds, or fall off the end of the procedure, which returns None
Dispatch ==
    /\ pc = "test"
    /\ LET j == FirstBranch(call.proc, call.br)
       IN  IF j = 0
           THEN /\ pc' = "idle"
                /\ ret' = None
                /\ UNCHANGED <<call, i>>
           ELSE /\ pc' = "loop"
                /\ call' = [call EXCEPT !.br = j, !.ran = j]
                /\ i' = 0
                /\ UNCHANGED ret
    /\ UNCHANGED <<fields, args, err, errs, reconerrs, classerrs, classaccs,
                   out, ncalls, hist, snap, prev>>

\* self.A = ..., the first assignment of an iteration
UpdateA ==
    /\ pc = "loop"
    /\ i < call.numiters
    /\ A' = NewA(Model, call.proc, call.br, call.eps)
    /\ pc' = AfterA(call.proc)
    /\ UNCHANGED <<X, S, Y, B, lam, W, L, args, err, call, i, errs, reconerrs,
                   classerrs, classaccs, ret, out, ncalls, hist, snap, prev>>

\* self.B = ..., in snmfmult and klsnmfmult
UpdateB ==
    /\ pc = "updB"
    /\ B' = NewB(Model, call.proc, call.br, call.eps)
    /\ pc' = "updS"
    /\ UNCHANGED <<X, A, S, Y, lam, W, L, args, err, call, i, errs, reconerrs,
                   classerrs, classaccs, ret, out, ncalls, hist, snap, prev>>

\* self.S = ...
UpdateS ==
    /\ pc = "updS"
    /\ S' = NewS(Model, call.proc, call.br, call.eps)
    /\ pc' = "save"
    /\ UNCHANGED <<X, A, Y, B, lam, W, L, args, err, call, i, errs, reconerrs,
                   classerrs, classaccs, ret, out, ncalls, hist, snap, prev>>

\* "if saveerrs:" at the end of an iteration: the diagnostics are written
\* at index i; an exception of accuracy() ends the call
Save ==
    /\ pc = "save"
    /\ hist' = Append(hist, Model)
    /\ LET re == ReconErr(A, S, X, W, BranchW(call.proc, call.br))
           ce == ClassErr(B, S, Y, L, BranchL(call.proc, call.br))
           kl == Kldiv(Y, B, S, L, DefaultEps).val
           acc == Accuracy(Y, B, S, L)
       IN  IF ~call.saveerrs
           THEN /\ i' = i + 1
                /\ pc' = "loop"
                /\ UNCHANGED <<err, errs, reconerrs, classerrs, classaccs>>
           ELSE IF call.proc = "mult"
           THEN /\ errs' = [errs EXCEPT ![i + 1] = Cell(re)]
                /\ i' = i + 1
                /\ pc' = "loop"
                /\ UNCHANGED <<err, reconerrs, classerrs, classaccs>>
           ELSE IF acc.err # NoErr
           THEN /\ err' = acc.err
                /\ pc' = "idle"
                /\ UNCHANGED <<i, errs, reconerrs, classerrs, classaccs>>
           ELSE /\ reconerrs' = [reconerrs EXCEPT ![i + 1] = Cell(re)]
                /\ classerrs' = [classerrs EXCEPT ![i + 1] =
                        IF call.proc = "snmfmult" THEN Cell(ce) ELSE Cell(kl)]
                /\ errs' = [errs EXCEPT ![i + 1] =
                        IF call.proc = "snmfmult" THEN Cell(SnmfErr(re, ce, lam[1]))
                        ELSE Cell(KlErr(re, kl, lam[1]))]
                /\ classaccs' = [classaccs EXCEPT ![i + 1] = Cell(acc.val)]
                /\ i' = i + 1
                /\ pc' = "loop"
                /\ UNCHANGED err
    /\ UNCHANGED <<fields, args, call, ret, out, ncalls, snap, prev>>

\* after the loop: the notice, then "if saveerrs: return [...]"; without
\* saveerrs mult and snmfmult end, and klsnmfmult goes on to its next test
Finish ==
    /\ pc = "loop"
    /\ i >= call.numiters
    /\ out' = Append(out, Notice(call.proc, call.br))
    /\ IF call.saveerrs
       THEN /\ ret' = IF call.proc = "mult" THEN <<errs>>
                      ELSE <<errs, reconerrs, classerrs, classaccs>>
            /\ pc' = "idle"
            /\ UNCHANGED call
       ELSE IF call.proc = "klsnmfmult"
       THEN /\ pc' = "test"
            /\ call' = [call EXCEPT !.br = call.br + 1]
            /\ UNCHANGED ret
       ELSE /\ pc' = "idle"
            /\ ret' = None
            /\ UNCHANGED call
    /\ UNCHANGED <<fields, args, err, i, errs, reconerrs, classerrs, classaccs,
                   ncalls, hist, snap, prev>>

\* a call of accuracy() from outside
AccuracyCall ==
    /\ pc = "idle"
    /\ ncalls < MaxCalls
    /\ ncalls' = ncalls + 1
    /\ call' = [proc |-> "accuracy", numiters |-> 0, saveerrs |-> FALSE,
                eps |-> DefaultEps, br |-> 1, ran |-> 0]
    /\ err' = Accuracy(Y, B, S, L).err
    /\ ret' = Accuracy(Y, B, S, L).val
    /\ snap' = Model
    /\ out' = <<>>
    /\ hist' = <<>>
    /\ prev' = NoPrev
    /\ UNCHANGED <<fields, args, pc, i, errs, reconerrs, classerrs, classaccs>>

\* a call of kldiv(eps = ..) from outside
KldivCall(eps) ==
    /\ pc = "idle"
    /\ ncalls < MaxCalls
    /\ ncalls' = ncalls + 1
    /\ call' = [proc |-> "kldiv", numiters |-> 0, saveerrs |-> FALSE,
                eps |-> eps, br |-> 1, ran |-> 0]
    /\ err' = Kldiv(Y, B, S, L, eps).err
    /\ ret' = Kldiv(Y, B, S, L, eps).val
    /\ snap' = Model
    /\ out' = <<>>
    /\ hist' = <<>>
    /\ prev' = NoPrev
    /\ UNCHANGED <<fields, args, pc, i, errs, reconerrs, classerrs, classaccs>>

-----------------------------------------------------------------------------
(* The specifications.                                                      *)

\* a matrix of integers as a fixed-point matrix
FixMat(M) == [r \in 1..Len(M) |-> [c \in 1..Len(M[1]) |-> Fix(M[r][c])]]

\* no call has been made yet
NoCall == [proc |-> "none", numiters |-> 0, saveerrs |-> FALSE,
           eps |-> DefaultEps, br |-> 1, ran |-> 0]

\* everything but the fields and the constructor's arguments, before any call
Fresh ==
    /\ err = NoErr
    /\ call = NoCall
    /\ i = 0
    /\ errs = None
    /\ reconerrs = None
    /\ classerrs = None
    /\ classaccs = None
    /\ ret = None
    /\ out = <<>>
    /\ ncalls = 0
    /\ hist = <<>>
    /\ prev = [proc |-> "none", numiters |-> 0, err |-> NoErr, snap |-> Model]

\* the models of the training specification: X is 2 x 2, k = 1, p = 2
XSet == {FixMat(<<<<1, 2>>, <<3, 4>>>>)}

ASet == {FixMat(<<<<1>>, <<1>>>>)}

SSet == {FixMat(<<<<1, 1>>>>)}

WSet == {None, FixMat(<<<<1, 0>>, <<1, 1>>>>)}

YSet == {FixMat(<<<<1, 0>>, <<0, 1>>>>)}

BSet == {FixMat(<<<<1>>, <<2>>>>)}

LSet == {None, FixMat(<<<<0, 0>>, <<0, 0>>>>), FixMat(<<<<1, 1>>, <<0, 1>>>>)}

LamSet == {Some(Fix(2))}

\* the state after a successful construction: the fields hold the
\* arguments, and B and lam are None exactly when Y is
Init ==
    /\ X \in XSet
    /\ A \in ASet
    /\ S \in SSet
    /\ W \in WSet
    /\ Y \in YSet \cup {None}
    /\ B \in IF Y = None THEN {None} ELSE BSet
    /\ L \in IF Y = None THEN {None} ELSE LSet
    /\ lam \in IF Y = None THEN {None} ELSE LamSet
    /\ args = [X |-> X, k |-> Cols(A), A |-> A, S |-> S, Y |-> Y, B |-> B,
               W |-> W, L |-> L, lam |-> lam]
    /\ pc = "idle"
    /\ snap = Model
    /\ Fresh

Next ==
    \/ \E proc \in Procs, numiters \in NumItersSet, saveerrs \in BOOLEAN, eps \in EpsSet :
          StartCall(proc, numiters, saveerrs, eps)
    \/ Dispatch
    \/ UpdateA
    \/ UpdateB
    \/ UpdateS
    \/ Save
    \/ Finish
    \/ AccuracyCall
    \/ \E eps \in EpsSet : KldivCall(eps)

Spec == Init /\ [][Next]_vars

\* models whose factors have entries that are 0 at construction
AZeroSet == {FixMat(<<<<0>>, <<2>>>>)}

SZeroSet == {FixMat(<<<<1, 0>>>>)}

BZeroSet == {FixMat(<<<<2>>, <<0>>>>)}

\* the state after a successful construction with such factors
InitZero ==
    /\ X \in XSet
    /\ A \in AZeroSet
    /\ S \in SZeroSet
    /\ W \in WSet
    /\ Y \in YSet \cup {None}
    /\ B \in IF Y = None THEN {None} ELSE BZeroSet
    /\ L \in IF Y = None THEN {None} ELSE LSet
    /\ lam \in IF Y = None THEN {None} ELSE LamSet
    /\ args = [X |-> X, k |-> Cols(A), A |-> A, S |-> S, Y |-> Y, B |-> B,
               W |-> W, L |-> L, lam |-> lam]
    /\ pc = "idle"
    /\ snap = Model
    /\ Fresh

SpecZero == InitZero /\ [][Next]_vars

\* the shapes of the constructor's arguments
ShapeSet == {<<1, 2>>, <<2, 1>>, <<2, 2>>}

\* an optional argument: absent, or a matrix of ones of some shape
OptArg == {None} \cup {Ones(s[1], s[2]) : s \in ShapeSet}

\* before construction: no object yet, the arguments chosen
InitNew ==
    /\ args \in [X : {Ones(2, 2), Ones(1, 2)}, k : {1, 2}, A : OptArg, S : OptArg,
                 Y : OptArg, B : OptArg, W : OptArg, L : OptArg,
                 lam : {None, Some(Fix(2))}]
    /\ X = None /\ A = None /\ S = None /\ Y = None
    /\ B = None /\ lam = None /\ W = None /\ L = None
    /\ pc = "new"
    /\ snap = Model
    /\ Fresh

NextNew == Construct

SpecInit == InitNew /\ [][NextNew]_vars

\* the entries of the matrices of the accuracy specification
AccVals == {0, Fix(1), Fix(2)}

\* models for accuracy(): Y, B, S and L range over all small matrices
InitAcc ==
    /\ X = FixMat(<<<<1, 2>>, <<3, 4>>>>)
    /\ A = FixMat(<<<<1>>, <<1>>>>)
    /\ W = None
    /\ S \in [1..1 -> [1..2 -> AccVals]]
    /\ Y \in [1..2 -> [1..2 -> {0, Fix(1)}]] \cup {None}
    /\ B \in IF Y = None THEN {None} ELSE [1..2 -> [1..1 -> AccVals]]
    /\ L \in IF Y = None THEN {None} ELSE [1..2 -> [1..2 -> {0, Fix(1)}]] \cup {None}
    /\ lam = IF Y = None THEN None ELSE Some(Fix(1))
    /\ args = [X |-> X, k |-> Cols(A), A |-> A, S |-> S, Y |-> Y, B |-> B,
               W |-> W, L |-> L, lam |-> lam]
    /\ pc = "idle"
    /\ snap = Model
    /\ Fresh

NextAcc == AccuracyCall

SpecAcc == InitAcc /\ [][NextAcc]_vars

-----------------------------------------------------------------------------
(* Properties.                                                              *)

\* the call that ran last (or runs now) is a training call that passed
\* the label-matrix check
Trained == call.proc \in Procs /\ (call.proc = "mult" \/ Y # None)

\* C1: on a model without Y, snmfmult, klsnmfmult, accuracy and kldiv end
\* at once with the missing-label-matrix exception, whatever numiters,
\* saveerrs and eps are, and A, S and B (None) are what the call found
C1_MissingSupervisionGate ==
    (Y = None /\ call.proc \in {"snmfmult", "klsnmfmult", "accuracy", "kldiv"})
        => /\ pc = "idle"
           /\ MissingSupervision(err)
           /\ A = snap.A /\ S = snap.S /\ B = None /\ snap.B = None
           /\ ret = None
           /\ hist = <<>>

\* C1 happens: snmfmult with saveerrs and the largest numiters has failed
\* on a model without Y
C1_Witness ==
    /\ Y = None
    /\ call.proc = "snmfmult" /\ call.saveerrs /\ call.numiters = MaxIters
    /\ MissingSupervision(err)

\* the shape invariants of the constructor's arguments; a default A, S or
\* B has the right shape by construction
ShapesHold(a) ==
    LET m == Shape(a.X)[1]
        n == Shape(a.X)[2]
    IN  /\ a.A # None => Shape(a.A) = <<m, a.k>>
        /\ a.S # None => Shape(a.S) = <<a.k, n>>
        /\ a.Y # None => /\ Shape(a.Y)[2] = n
                         /\ a.B # None => Shape(a.B) = <<Shape(a.Y)[1], a.k>>
        /\ a.W # None => Shape(a.W) = Shape(a.X)
        /\ (a.L # None /\ a.Y # None) => Shape(a.L) = Shape(a.Y)

C3_MaskWithoutLabelsIsDimensionMismatch ==
    (pc # "new" /\ args.L # None /\ args.Y = None)
        => (pc = "failed" /\ DimensionMismatch(err))

\* C3 fails: every shape in order, L given without Y, and the constructor
\* ends with IndexError, which is no dimension error
C3_IndexErrorReached ==
    /\ pc = "failed"
    /\ args.L # None /\ args.Y = None
    /\ InitCheckAS(args, IF args.A = None THEN Ones(Shape(args.X)[1], args.k) ELSE args.A,
                         IF args.S = None THEN Ones(args.k, Shape(args.X)[2]) ELSE args.S) = NoErr
    /\ InitCheckW(args) = NoErr
    /\ err = IndexError

\* C4: after every update of every call, all entries of A, S and B are >= 0
C4_NonNegative ==
    pc \notin {"new", "failed"}
        => NonNeg(A) /\ NonNeg(S) /\ (B # None => NonNeg(B))

\* C4 happens: in a second call, klsnmfmult with both masks has updated
\* A, B and S in its last iteration
C4_Witness ==
    /\ pc = "save" /\ ncalls = MaxCalls /\ i = MaxIters - 1
    /\ call.proc = "klsnmfmult" /\ call.br = 4
    /\ A # snap.A /\ B # snap.B /\ S # snap.S

\* a float in [0, 1], as a fraction
InUnit(f) == f[2] > 0 /\ 0 <= f[1] /\ f[1] <= f[2]

\* C5: on a model with Y, accuracy() returns a value in [0, 1] and never
\* fails
C5_AccuracyInUnitInterval ==
    (call.proc = "accuracy" /\ Y # None) => (err = NoErr /\ InUnit(ret))

\* C5 fails: with L all zero every column is dropped from the denominator,
\* and accuracy() ends with ZeroDivisionError
C5_ZeroDenominatorReached ==
    /\ call.proc = "accuracy" /\ Y # None
    /\ L = Const(Rows(Y), Cols(Y), 0)
    /\ err = ZeroDivisionError
    /\ ret = None

\* every column of M has a nonzero maximum
NonzeroMax(M) == \A c \in 1..Cols(M) : M[ArgMax(Col(M, c))][c] # 0

\* C6 as claimed: with L given and every column of L * Y having a nonzero
\* maximum, accuracy() equals the no-L formula on Y and B @ S
C6_BranchesAgree ==
    (call.proc = "accuracy" /\ Y # None /\ L # None /\ NonzeroMax(Multiply(L, Y)))
        => (err = NoErr /\ ret = AccuracyNoL(Y, MatMul(B, S)).val)

\* C6 amended: under the same condition accuracy() equals the no-L formula
\* on the masked matrices L * Y and L * (B @ S)
C6_BranchesAgreeMasked ==
    (call.proc = "accuracy" /\ Y # None /\ L # None /\ NonzeroMax(Multiply(L, Y)))
        => /\ err = NoErr
           /\ ret = AccuracyNoL(Multiply(L, Y), Multiply(L, MatMul(B, S))).val

\* C6 happens: accuracy() has run with a mask that leaves every column a
\* nonzero maximum and hides an entry that decides the unmasked comparison
C6_Witness ==
    /\ call.proc = "accuracy" /\ Y # None /\ L # None
    /\ NonzeroMax(Multiply(L, Y))
    /\ err = NoErr
    /\ ret # AccuracyNoL(Y, MatMul(B, S)).val

\* the first index of the maximum of a vector
FirstMax(v) ==
    CHOOSE j \in 1..Len(v) :
        /\ \A k \in 1..Len(v) : v[k] <= v[j]
        /\ \A k \in 1..(j - 1) : v[k] < v[j]

\* the columns whose two first-occurrence argmaxes agree
Agreeing(LY, LYhat) ==
    {c \in 1..Cols(LY) : FirstMax(Col(LY, c)) = FirstMax(Col(LYhat, c))}

\* C7: with L, accuracy() is numacc / num_labels, numacc counting the
\* agreeing columns whose agreed entry of L * Y is nonzero, and num_labels
\* being n less the agreeing columns whose agreed entry is zero; a column
\* that does not agree stays in the denominator
C7_AccuracyWithMask ==
    (call.proc = "accuracy" /\ Y # None /\ L # None)
        => LET LY == Multiply(L, Y)
               ag == Agreeing(LY, Multiply(L, MatMul(B, S)))
               numacc == Cardinality({c \in ag : LY[FirstMax(Col(LY, c))][c] # 0})
               num_labels ==
                   Cols(Y) - Cardinality({c \in ag : LY[FirstMax(Col(LY, c))][c] = 0})
           IN  IF num_labels = 0 THEN err = ZeroDivisionError
               ELSE err = NoErr /\ ret[1] * num_labels = numacc * ret[2]

\* C7 happens: of two columns without a true label, one agrees and is
\* dropped, and the other does not agree and stays in the denominator
C7_Witness ==
    /\ call.proc = "accuracy" /\ Y # None /\ L # None /\ err = NoErr
    /\ LET LY == Multiply(L, Y)
           LYhat == Multiply(L, MatMul(B, S))
       IN  /\ \A r \in 1..Rows(LY), c \in 1..Cols(LY) : LY[r][c] = 0
           /\ \E c \in 1..Cols(LY) : c \in Agreeing(LY, LYhat)
           /\ \E c \in 1..Cols(LY) : c \notin Agreeing(LY, LYhat)
    /\ ret = <<0, 1>>

\* the cells an iteration writes at its index, computed from the fields h
\* the iteration left behind: <<errs, reconerrs, classerrs, classaccs>>
SavedFor(h, proc, br) ==
    LET re == ReconErr(h.A, h.S, h.X, h.W, BranchW(proc, br))
        ce == ClassErr(h.B, h.S, h.Y, h.L, BranchL(proc, br))
        kl == Kldiv(h.Y, h.B, h.S, h.L, DefaultEps).val
        acc == Accuracy(h.Y, h.B, h.S, h.L).val
    IN  IF proc = "mult" THEN <<Cell(re)>>
        ELSE IF proc = "snmfmult"
        THEN <<Cell(SnmfErr(re, ce, h.lam[1])), Cell(re), Cell(ce), Cell(acc)>>
        ELSE <<Cell(KlErr(re, kl, h.lam[1])), Cell(re), Cell(kl), Cell(acc)>>

\* C8: a training call with saveerrs returns one sequence (mult) or four
\* (snmfmult, klsnmfmult), each of length numiters, entry it holding the
\* metric of the fields as iteration it left them; without saveerrs it
\* returns nothing
C8_SavedErrors ==
    (pc = "idle" /\ Trained)
        => IF call.saveerrs
           THEN /\ err = NoErr
                /\ Len(ret) = IF call.proc = "mult" THEN 1 ELSE 4
                /\ Len(hist) = call.numiters
                /\ \A j \in 1..Len(ret) :
                      /\ Len(ret[j]) = call.numiters
                      /\ \A it \in 1..call.numiters :
                            ret[j][it] = SavedFor(hist[it], call.proc, call.ran)[j]
           ELSE ret = None

\* C8 short of the failure of accuracy(): the statement of C8 for every
\* call that accuracy() did not end
C8_SavedErrorsUnlessAccuracyFails ==
    (err # ZeroDivisionError) => C8_SavedErrors

\* C8 fails: snmfmult with saveerrs has ended in its first iteration, after
\* the updates, with the exception of accuracy(), and has returned nothing
C8_CallEndedByAccuracy ==
    /\ pc = "idle" /\ call.proc = "snmfmult" /\ call.saveerrs
    /\ call.numiters = MaxIters
    /\ err = ZeroDivisionError
    /\ Len(hist) = 1 /\ A # snap.A /\ S # snap.S
    /\ ret = None

\* C9: mult on a model that has Y succeeds and leaves X, Y, B, lam, W and
\* L as it found them
C9_MultIgnoresLabels ==
    (call.proc = "mult" /\ Y # None)
        => /\ err = NoErr
           /\ X = snap.X /\ Y = snap.Y /\ B = snap.B
           /\ lam = snap.lam /\ W = snap.W /\ L = snap.L
           /\ pc = "idle" => (Len(hist) = call.numiters /\ Len(out) = 1 /\ call.ran # 0)

\* C9 happens: mult has run its iterations on a model with Y, B, lam, W
\* and L, and has changed A and S
C9_Witness ==
    /\ call.proc = "mult" /\ pc = "idle" /\ call.numiters = MaxIters
    /\ Y # None /\ L # None /\ W # None
    /\ A # snap.A /\ S # snap.S

\* the fields one iteration of branch br of proc leaves behind, each
\* update reading what the earlier updates of the iteration wrote
Iterate(m, proc, br, eps) ==
    LET m1 == [m EXCEPT !.A = NewA(m, proc, br, eps)]
        m2 == IF proc = "mult" THEN m1 ELSE [m1 EXCEPT !.B = NewB(m1, proc, br, eps)]
    IN  [m2 EXCEPT !.S = NewS(m2, proc, br, eps)]

\* the model of the worked example
IsExample(m) ==
    /\ m.X = FixMat(<<<<1, 2>>, <<3, 4>>>>)
    /\ m.A = FixMat(<<<<1>>, <<1>>>>)
    /\ m.S = FixMat(<<<<1, 1>>>>)
    /\ m.W = None

\* A after the first iteration of mult in the worked example:
\* (1 / (eps + 2)) * 3 and (1 / (eps + 2)) * 7
ExampleA(eps) ==
    <<<<Mul(Div(Fix(1), eps + Fix(2)), Fix(3))>>,
      <<Mul(Div(Fix(1), eps + Fix(2)), Fix(7))>>>>

\* C10: a training call runs numiters iterations and returns; an
\* iteration updates A, then B, then S, each update reading what the
\* earlier ones wrote; in the worked example the first iteration of mult
\* gives A = [3, 7] / (eps + 2) and S from that A
C10_FixedIterationsInOrder ==
    Trained
        => /\ pc = "idle" => (err = NoErr /\ Len(hist) = call.numiters /\ Len(out) = 1)
           /\ \A it \in 1..Len(hist) :
                 hist[it] = Iterate(IF it = 1 THEN snap ELSE hist[it - 1],
                                    call.proc, call.ran, call.eps)
           /\ (call.proc = "mult" /\ IsExample(snap) /\ Len(hist) >= 1)
                 => /\ hist[1].A = ExampleA(call.eps)
                    /\ hist[1].S = MultUpdS(ExampleA(call.eps), snap.S, snap.X, call.eps)

\* C10 short of the failure of accuracy(): the statement of C10 for every
\* call that accuracy() did not end
C10_FixedIterationsUnlessAccuracyFails ==
    (err # ZeroDivisionError) => C10_FixedIterationsInOrder

\* C10 fails: klsnmfmult with saveerrs has stopped before its numiters
\* iterations were run, and has printed no notice
C10_StoppedEarly ==
    /\ pc = "idle" /\ call.proc = "klsnmfmult" /\ call.saveerrs
    /\ err = ZeroDivisionError
    /\ Len(hist) < call.numiters
    /\ out = <<>>

\* the notice that belongs to a procedure and a pair (W given, L given)
NoticeFor(proc, w, l) ==
    IF proc = "mult"
    THEN IF w THEN "Completed NMF for unsupervised learning with missing data."
         ELSE "Completed NMF for unsupervised learning without missing data."
    ELSE (IF proc = "snmfmult" THEN "Completed SSNMF for " ELSE "Completed I-SSNMF for ")
         \o (IF l THEN "semi-supervised" ELSE "supervised")
         \o " learning "
         \o (IF w THEN "with" ELSE "without")
         \o " missing data."

\* C11: a training call that has ended without an exception has entered
\* one masking branch, the one for (W given, L given) of the construction
\* (mult looks at W only), has run its numiters iterations with that
\* branch's formulas, and has printed that branch's notice and no other
C11_OneBranchOneNotice ==
    (pc = "idle" /\ Trained /\ err = NoErr)
        => /\ call.ran # 0
           /\ BranchW(call.proc, call.ran) <=> (args.W # None)
           /\ call.proc # "mult" => (BranchL(call.proc, call.ran) <=> (args.L # None))
           /\ out = <<NoticeFor(call.proc, args.W # None,
                                call.proc # "mult" /\ args.L # None)>>
           /\ Len(hist) = call.numiters

\* C11 happens: klsnmfmult without saveerrs has run its first branch, gone
\* on to the later tests, entered none of them and returned
C11_Witness ==
    /\ pc = "idle" /\ err = NoErr
    /\ call.proc = "klsnmfmult" /\ ~call.saveerrs /\ call.numiters = MaxIters
    /\ call.ran = 1 /\ call.br = 2
    /\ Len(out) = 1

RECURSIVE IterateN(_, _, _, _, _)
\* the fields n iterations of branch br of proc leave behind
IterateN(m, proc, br, eps, n) ==
    IF n = 0 THEN m ELSE Iterate(IterateN(m, proc, br, eps, n - 1), proc, br, eps)

\* C12: when a training call of numiters b has followed a call of the same
\* procedure with the same eps and numiters a, the fields are those that
\* a + b iterations leave from the fields the first call found; a call of
\* numiters 0 leaves A, S and B as it found them
C12_TrainingContinues ==
    (pc = "idle" /\ Trained)
        => /\ prev.proc = call.proc =>
                 Model = IterateN(prev.snap, call.proc, call.ran, call.eps,
                                  prev.numiters + call.numiters)
           /\ call.numiters = 0 => (A = snap.A /\ S = snap.S /\ B = snap.B)

\* C12 short of the failure of accuracy(): the statement of C12 for every
\* pair of calls neither of which accuracy() ended
C12_ContinuesUnlessAccuracyFails ==
    (prev.err # ZeroDivisionError /\ err # ZeroDivisionError) => C12_TrainingContinues

\* C12 fails: two calls of snmfmult(numiters = MaxIters, saveerrs = True)
\* have each been ended by accuracy() in their first iteration, so that two
\* iterations were run, where one call of twice the numiters runs one
C12_TwoCallsRunTwoIterations ==
    /\ pc = "idle" /\ call.proc = "snmfmult" /\ prev.proc = "snmfmult"
    /\ call.saveerrs /\ call.numiters = MaxIters /\ prev.numiters = MaxIters
    /\ prev.err = ZeroDivisionError /\ err = ZeroDivisionError
    /\ snap = IterateN(prev.snap, "snmfmult", call.ran, call.eps, 1)
    /\ Model = IterateN(prev.snap, "snmfmult", call.ran, call.eps, 2)
    /\ Model # snap

\* the values tried at the masked positions of X
MaskedVals == {0, Fix(7)}

\* the positions where W0 is 0
MaskedAt(W0) ==
    {q \in (1..Rows(W0)) \X (1..Cols(W0)) : W0[q[1]][q[2]] = 0}

\* the matrices that agree with X0 wherever W0 is not 0, with any of
\* MaskedVals where it is
XVariants(X0, W0) ==
    {[r \in 1..Rows(X0) |-> [c \in 1..Cols(X0) |->
            IF W0[r][c] = 0 THEN f[<<r, c>>] ELSE X0[r][c]]] :
        f \in [MaskedAt(W0) -> MaskedVals]}

\* C13: on a model with W, a training call run instead on any model that
\* differs only in X where W is 0 gives, iteration by iteration, the same
\* A, S and B and the same reconstruction error (stated of each iteration
\* when it has just ended: hist's last entry)
C13_MaskedEntriesNoInfluence ==
    (Trained /\ W # None /\ pc \in {"loop", "idle"} /\ Len(hist) >= 1)
        => \A X2 \in XVariants(snap.X, snap.W) :
              LET it == Len(hist)
                  before == IF it = 1 THEN snap ELSE hist[it - 1]
                  h2 == Iterate([before EXCEPT !.X = X2], call.proc, call.ran, call.eps)
              IN  /\ h2.A = hist[it].A /\ h2.S = hist[it].S /\ h2.B = hist[it].B
                  /\ ReconErr(h2.A, h2.S, X2, W, BranchW(call.proc, call.ran))
                         = ReconErr(hist[it].A, hist[it].S, X, W,
                                    BranchW(call.proc, call.ran))

\* C13 happens: klsnmfmult has run its iterations with both masks on a
\* model whose X is not 0 at a position where W is 0
C13_Witness ==
    /\ pc = "idle" /\ err = NoErr /\ W # None
    /\ call.proc = "klsnmfmult" /\ call.ran = 4 /\ call.saveerrs
    /\ Len(hist) = MaxIters /\ hist[MaxIters].A # snap.A
    /\ \E r \in 1..Rows(X), c \in 1..Cols(X) : W[r][c] = 0 /\ X[r][c] # 0
    /\ \E X2 \in XVariants(snap.X, snap.W) : X2 # X

\* C14: a training call ends with the A, S and B that numiters iterations
\* leave from the fields it found, whether saveerrs is true or false, so
\* the two calls end alike; the diagnostics at the end of an iteration,
\* and accuracy() and kldiv() called from outside, assign no field
C14_SaveerrsDoesNotChangeTraining ==
    /\ (pc = "idle" /\ Trained)
          => LET m == IterateN(snap, call.proc, call.ran, call.eps, call.numiters)
             IN  A = m.A /\ S = m.S /\ B = m.B
    /\ (pc \in {"loop", "idle"} /\ Trained /\ Len(hist) >= 1)
          => Model = hist[Len(hist)]
    /\ call.proc \in {"accuracy", "kldiv"} => Model = snap

\* C14 short of the failure of accuracy(): the statement of C14 for every
\* call that accuracy() did not end
C14_SameTrainingUnlessAccuracyFails ==
    (err # ZeroDivisionError) => C14_SaveerrsDoesNotChangeTraining

\* C14 fails: snmfmult with saveerrs has been ended by accuracy() after one
\* iteration, where the call without saveerrs runs MaxIters iterations and
\* leaves another A
C14_SaveerrsStoppedTraining ==
    /\ pc = "idle" /\ call.proc = "snmfmult" /\ call.saveerrs
    /\ call.numiters = MaxIters
    /\ err = ZeroDivisionError
    /\ Model = IterateN(snap, "snmfmult", call.ran, call.eps, 1)
    /\ A # IterateN(snap, "snmfmult", call.ran, call.eps, MaxIters).A

\* the entries of M0 that are 0 are 0 in M1
ZerosKept(M0, M1) ==
    \A r \in 1..Rows(M0), c \in 1..Cols(M0) : M0[r][c] = 0 => M1[r][c] = 0

\* C15: no step of any call turns an entry of A, S or B that is 0 into an
\* entry that is not
C15_ZerosAbsorb ==
    [][/\ ZerosKept(A, A')
       /\ ZerosKept(S, S')
       /\ B # None => ZerosKept(B, B')]_vars

\* C15 happens: in a later call, klsnmfmult with both masks has updated A,
\* B and S, each of which had an entry 0 at construction and has it still,
\* beside an entry that is not 0
C15_Witness ==
    /\ pc = "save" /\ ncalls = MaxCalls
    /\ call.proc = "klsnmfmult" /\ call.ran = 4
    /\ args.A[1][1] = 0 /\ A[1][1] = 0 /\ A[2][1] # 0 /\ A # snap.A
    /\ args.S[1][2] = 0 /\ S[1][2] = 0 /\ S[1][1] # 0 /\ S # snap.S
    /\ args.B[2][1] = 0 /\ B[2][1] = 0 /\ B[1][1] # 0 /\ B # snap.B

=============================================================================
